---- MODULE Spec2Model ----
(***************************************************************************)
(* Model of bigcode_tokenizer/tokenizer.py: the Tokenizer classes, the     *)
(* TOKENIZERS registry and the module-level tokenize_file.                 *)
(*                                                                         *)
(* The pygments lexer is an external collaborator.  It is abstracted as a  *)
(* total classification of one-character lexemes: a text is a sequence of  *)
(* characters and get_tokens turns every character into one raw item       *)
(* (category, text).  A pygments token type is the tuple of its path below *)
(* the root type Token (token.Text.Whitespace is <<"Text", "Whitespace">>).*)
(***************************************************************************)
EXTENDS Integers, Sequences, FiniteSets, TLC

(* Longest input text that is explored. *)
MaxLen == 4

(* The max_len a caller passes in the options mapping. *)
MaxInputLen == MaxLen - 1

(* Default of the max_len constructor argument. *)
DefaultMaxLen == 50000

VARIABLES
    code,           \* the text under test; also the content of every file
    options,        \* the caller's options mapping (a dict the caller owns)
    pc,             \* "idle", or "loop" inside tokenize_string
    self,           \* the tokenizer instance of the last call
    call,           \* entry point, filename and tokenizer name of the last call
    raw_tokens,     \* local of tokenize_string
    tokens,         \* local of tokenize_string
    iters,          \* history: iterations of the while loop so far
    skipped_total,  \* history: raw items dropped by skip_tokens so far
    spans,          \* history: <<first raw position, count>> of each token
    opened,         \* history: the files opened by the last call
    result          \* outcome of the last finished call

vars == <<code, options, pc, self, call, raw_tokens, tokens, iters,
          skipped_total, spans, opened, result>>

----------------------------------------------------------------------------
(* pygments token types and the abstract lexer *)

Operator == <<"Operator">>
Text == <<"Text">>
Whitespace == <<"Text", "Whitespace">>
Comment == <<"Comment">>
CommentSingle == <<"Comment", "Single">>

Chars == {">", "=", " ", "#"}

Category(c) ==
    CASE c = ">" -> Operator
      [] c = "=" -> Operator
      [] c = " " -> Whitespace
      [] c = "#" -> CommentSingle

(* list(self.lexer.get_tokens(code)) *)
get_tokens(text) == [i \in 1..Len(text) |-> <<Category(text[i]), text[i]>>]

(* "tok[0] in token.Text": the type is the parent or one of its subtypes *)
InType(t, parent) ==
    /\ Len(t) >= Len(parent)
    /\ SubSeq(t, 1, Len(parent)) = parent

(* str(token_type): the dotted path from the root, as its components *)
TypeStr(t) == <<"Token">> \o t

(* s.replace("Token.", ""): drop each component "Token" that a dot follows *)
ReplaceTokenDot(s) ==
    LET keep == {i \in 1..Len(s) : ~(s[i] = "Token" /\ i < Len(s))}
        F[i \in 0..Len(s)] ==
            IF i = 0 THEN <<>>
            ELSE IF i \in keep THEN Append(F[i - 1], s[i]) ELSE F[i - 1]
    IN F[Len(s)]

None == "<None>"
NoToken == [kind |-> <<>>, value |-> None]

Min(a, b) == IF a < b THEN a ELSE b

(* Python slice s[n:] *)
SliceFrom(s, n) == SubSeq(s, Min(n, Len(s)) + 1, Len(s))

(* Python slice s[:n] *)
SliceTo(s, n) == SubSeq(s, 1, Min(n, Len(s)))

----------------------------------------------------------------------------
(* class Tokenizer *)

Classes == {"JavaTokenizer", "Python3Tokenizer", "Python2Tokenizer",
            "PythonTokenizer"}

(* the classes whose __init__ sets self._lexer *)
HasLexer(cls) == cls \in {"JavaTokenizer", "Python3Tokenizer", "Python2Tokenizer"}

(* Tokenizer.__init__ applied to the keyword arguments, with its defaults *)
NewTokenizer(cls, kwargs) ==
    [cls            |-> cls,
     include_values |-> IF "include_values" \in DOMAIN kwargs
                        THEN kwargs["include_values"] ELSE TRUE,
     skip_text      |-> IF "skip_text" \in DOMAIN kwargs
                        THEN kwargs["skip_text"] ELSE TRUE,
     skip_comments  |-> IF "skip_comments" \in DOMAIN kwargs
                        THEN kwargs["skip_comments"] ELSE TRUE,
     max_len        |-> IF "max_len" \in DOMAIN kwargs
                        THEN kwargs["max_len"] ELSE DefaultMaxLen]

_should_skip(t, tok) ==
    IF t.skip_text /\ InType(tok[1], Text) THEN TRUE
    ELSE IF t.skip_comments /\ InType(tok[1], Comment) THEN TRUE
    ELSE FALSE

(* returns <<raw_tokens[skipped:], skipped>> *)
skip_tokens(t, raw) ==
    LET skipped == CHOOSE k \in 0..Len(raw) :
                       /\ \A i \in 1..k : _should_skip(t, raw[i])
                       /\ (k < Len(raw) => ~_should_skip(t, raw[k + 1]))
    IN <<SliceFrom(raw, skipped), skipped>>

(* variant: the value is kept whatever include_values says *)
transform_raw_token_KeepsValue(t, raw_token) ==
    [kind  |-> ReplaceTokenDot(TypeStr(raw_token[1])),
     value |-> raw_token[2]]

transform_raw_token(t, raw_token) ==
    [kind  |-> ReplaceTokenDot(TypeStr(raw_token[1])),
     value |-> IF ~t.include_values THEN None ELSE raw_token[2]]

(* Tokenizer.get_next_token: <<token, read_count>> *)
Tokenizer_get_next_token(t, raw) == <<transform_raw_token(t, raw[1]), 1>>

----------------------------------------------------------------------------
(* class JavaTokenizer *)

MULTI_CHARS_OPS ==
    << <<4, {">>>="}>>,
       <<3, {">>=", "<<=", ">>>"}>>,
       <<2, {"==", "!=", ">=", "<=", "+=", "-=", "*=", "/=", "%=", "&=",
             "^=", "|=", ">>", "<<", "++", "--", "&&", "||"}>> >>

(* "".join(v[1] for v in items) *)
RECURSIVE JoinValues(_)
JoinValues(items) ==
    IF items = <<>> THEN ""
    ELSE items[1][2] \o JoinValues(Tail(items))

(* the body of the for loop passes all three tests for entry i *)
OpsEntryMatches(raw, i) ==
    LET chars_count == MULTI_CHARS_OPS[i][1]
        operators == MULTI_CHARS_OPS[i][2]
    IN /\ ~(Len(raw) <= chars_count)
       /\ \A j \in 1..chars_count : raw[j][1] = Operator
       /\ JoinValues(SliceTo(raw, chars_count)) \in operators

JavaTokenizer_get_next_token(t, raw) ==
    LET hits == {i \in 1..Len(MULTI_CHARS_OPS) : OpsEntryMatches(raw, i)}
    IN IF hits = {}
       THEN Tokenizer_get_next_token(t, raw)
       ELSE LET i == CHOOSE h \in hits : \A g \in hits : h <= g
                chars_count == MULTI_CHARS_OPS[i][1]
            IN <<transform_raw_token(t,
                    <<Operator, JoinValues(SliceTo(raw, chars_count))>>),
                 chars_count>>

(* method dispatch on the class of the instance *)
get_next_token(t, raw) ==
    IF t.cls = "JavaTokenizer"
    THEN JavaTokenizer_get_next_token(t, raw)
    ELSE Tokenizer_get_next_token(t, raw)

----------------------------------------------------------------------------
(* one iteration of the while loop of Tokenizer.tokenize_string *)

LoopBody(t, raw, toks) ==
    LET sk == skip_tokens(t, raw)
        rest == sk[1]
        nt == IF rest # <<>> THEN get_next_token(t, rest) ELSE <<NoToken, 0>>
        new_token == nt[1]
        consumed_count == sk[2] + nt[2]
    IN [raw_tokens |-> SliceFrom(rest, consumed_count),
        tokens     |-> IF new_token # NoToken THEN Append(toks, new_token)
                       ELSE toks,
        skipped    |-> sk[2],
        read_count |-> nt[2]]

(* Tokenizer.tokenize_string on a tokenizer that has a lexer *)
RECURSIVE RunLoop(_, _, _)
RunLoop(t, raw, toks) ==
    IF raw = <<>> THEN toks
    ELSE LET b == LoopBody(t, raw, toks)
         IN RunLoop(t, b.raw_tokens, b.tokens)

tokenize_string(t, text) == RunLoop(t, get_tokens(text), <<>>)

----------------------------------------------------------------------------
(* outcomes of a call *)

Returned(toks) == [tag |-> "tokens", tokens |-> toks, exc |-> "", msg |-> <<>>]
ReturnedNone == [tag |-> "None", tokens |-> <<>>, exc |-> "", msg |-> <<>>]
Raised(e, m) == [tag |-> "raise", tokens |-> <<>>, exc |-> e, msg |-> m]
Pending == [tag |-> "pending", tokens |-> <<>>, exc |-> "", msg |-> <<>>]

(* Tokenizer.tokenize_string: the lexer property raises without a _lexer *)
tokenize_string_outcome(t, text) ==
    IF ~HasLexer(t.cls) THEN Raised("NotImplementedError", <<>>)
    ELSE Returned(tokenize_string(t, text))

(* Tokenizer.tokenize_file on a file with the given content *)
Tokenizer_tokenize_file(t, content) ==
    IF Len(content) > t.max_len THEN ReturnedNone
    ELSE tokenize_string_outcome(t, content)

----------------------------------------------------------------------------
(* the registry and the module-level tokenize_file *)

TOKENIZERS ==
    ("java" :> "JavaTokenizer") @@ ("py" :> "Python3Tokenizer") @@
    ("python" :> "Python3Tokenizer") @@ ("python2" :> "PythonTokenizer")

Filenames == {"Main.java", "run.python2", "prog.cobol"}

(* path.splitext(filename)[1][1:] *)
Extension(filename) ==
    CASE filename = "Main.java"   -> "java"
      [] filename = "run.python2" -> "python2"
      [] filename = "prog.cobol"  -> "cobol"
      [] OTHER                    -> ""

(* options.pop("tokenizer", None) or path.splitext(filename)[1][1:] *)
TokenizerName(opts, filename) ==
    IF "tokenizer" \in DOMAIN opts
    THEN opts["tokenizer"]
    ELSE Extension(filename)

(* the mapping after options.pop("tokenizer", None) *)
Popped(opts) == [k \in DOMAIN opts \ {"tokenizer"} |-> opts[k]]

(* variant: the message leaves the file out *)
ErrorMessage_NoFilename(tokenizer_name, filename) ==
    <<"no tokenizer named ", tokenizer_name, " found">>

(* "no tokenizer named {0} found for {1}".format(tokenizer_name, filename) *)
ErrorMessage(tokenizer_name, filename) ==
    <<"no tokenizer named ", tokenizer_name, " found for ", filename>>

NoCall == [kind |-> "none", filename |-> "", tokenizer_name |-> ""]
NoSelf == NewTokenizer("Tokenizer", <<>>)

(* the mappings a caller passes *)
OptionKeys == {"include_values", "skip_text", "skip_comments"}
TokenizerChoices == {"java", "py", "python", "python2", "cobol"}
ConfigOptions ==
    UNION {[K -> {FALSE}] : K \in SUBSET OptionKeys}
WithMaxLen(o) == {o, o @@ ("max_len" :> MaxInputLen)}
WithTokenizer(o) == {o} \cup {o @@ ("tokenizer" :> n) : n \in TokenizerChoices}
OptionsSet ==
    UNION {UNION {WithTokenizer(m) : m \in WithMaxLen(o)} : o \in ConfigOptions}

Texts == UNION {[1..n -> Chars] : n \in 0..MaxLen}

----------------------------------------------------------------------------
Init ==
    /\ code \in Texts
    /\ options \in OptionsSet
    /\ pc = "idle"
    /\ self = NoSelf
    /\ call = NoCall
    /\ raw_tokens = <<>>
    /\ tokens = <<>>
    /\ iters = 0
    /\ skipped_total = 0
    /\ spans = <<>>
    /\ opened = {}
    /\ result = Pending

(* tokenize_file(filename, options) of the module, on the caller's mapping *)
tokenize_file(filename) ==
    /\ pc = "idle"
    /\ LET tokenizer_name == TokenizerName(options, filename)
       IN /\ options' = Popped(options)
          /\ call' = [kind |-> "module", filename |-> filename,
                      tokenizer_name |-> tokenizer_name]
          /\ IF tokenizer_name \notin DOMAIN TOKENIZERS
             THEN /\ result' = Raised("ValueError",
                                      ErrorMessage(tokenizer_name, filename))
                  /\ self' = NoSelf
                  /\ opened' = {}
             ELSE LET tokenizer == NewTokenizer(TOKENIZERS[tokenizer_name],
                                                Popped(options))
                  IN /\ self' = tokenizer
                     /\ opened' = {filename}
                     /\ result' = Tokenizer_tokenize_file(tokenizer, code)
    /\ raw_tokens' = <<>>
    /\ tokens' = <<>>
    /\ iters' = 0
    /\ skipped_total' = 0
    /\ spans' = <<>>
    /\ UNCHANGED <<code, pc>>

(* tokenize_string(code) on a tokenizer built from the options, up to the loop *)
tokenize_string_begin(cls) ==
    /\ pc = "idle"
    /\ "tokenizer" \notin DOMAIN options
    /\ self' = NewTokenizer(cls, options)
    /\ call' = [kind |-> "string", filename |-> "", tokenizer_name |-> ""]
    /\ opened' = {}
    /\ tokens' = <<>>
    /\ iters' = 0
    /\ skipped_total' = 0
    /\ spans' = <<>>
    /\ IF ~HasLexer(cls)
       THEN /\ result' = Raised("NotImplementedError", <<>>)
            /\ raw_tokens' = <<>>
            /\ pc' = "idle"
       ELSE /\ result' = Pending
            /\ raw_tokens' = get_tokens(code)
            /\ pc' = "loop"
    /\ UNCHANGED <<code, options>>

(* variant: the iteration ends without "raw_tokens = raw_tokens[consumed_count:]" *)
tokenize_string_iteration_NoAdvance ==
    /\ pc = "loop"
    /\ raw_tokens # <<>>
    /\ LET b == LoopBody(self, raw_tokens, tokens)
           position == Len(get_tokens(code)) - Len(raw_tokens)
       IN /\ raw_tokens' = skip_tokens(self, raw_tokens)[1]
          /\ tokens' = b.tokens
          /\ skipped_total' = skipped_total + b.skipped
          /\ spans' = IF b.read_count > 0
                      THEN Append(spans, <<position + b.skipped + 1, b.read_count>>)
                      ELSE spans
    /\ iters' = iters + 1
    /\ UNCHANGED <<code, options, pc, self, call, opened, result>>

(* one iteration of "while raw_tokens" *)
tokenize_string_iteration ==
    /\ pc = "loop"
    /\ raw_tokens # <<>>
    /\ LET b == LoopBody(self, raw_tokens, tokens)
           position == Len(get_tokens(code)) - Len(raw_tokens)
       IN /\ raw_tokens' = b.raw_tokens
          /\ tokens' = b.tokens
          /\ skipped_total' = skipped_total + b.skipped
          /\ spans' = IF b.read_count > 0
                      THEN Append(spans, <<position + b.skipped + 1, b.read_count>>)
                      ELSE spans
    /\ iters' = iters + 1
    /\ UNCHANGED <<code, options, pc, self, call, opened, result>>

(* the loop test fails: return tokens *)
tokenize_string_return ==
    /\ pc = "loop"
    /\ raw_tokens = <<>>
    /\ result' = Returned(tokens)
    /\ pc' = "idle"
    /\ UNCHANGED <<code, options, self, call, raw_tokens, tokens, iters,
                   skipped_total, spans, opened>>

Next ==
    \/ \E filename \in Filenames : tokenize_file(filename)
    \/ \E cls \in Classes : tokenize_string_begin(cls)
    \/ tokenize_string_iteration
    \/ tokenize_string_return

Spec == Init /\ [][Next]_vars

----------------------------------------------------------------------------
(* shorthands for the properties *)

raw0 == get_tokens(code)

Range(s) == {s[i] : i \in 1..Len(s)}

Kinds(toks) == [i \in 1..Len(toks) |-> toks[i].kind]

(* tokenize_string has returned its token list *)
StringReturned ==
    /\ pc = "idle"
    /\ call.kind = "string"
    /\ result.tag = "tokens"

(* the raw positions token k was made from *)
Covered(k) == spans[k][1] .. (spans[k][1] + spans[k][2] - 1)

RECURSIVE MergeSavings(_)
MergeSavings(sp) ==
    IF sp = <<>> THEN 0
    ELSE (sp[1][2] - 1) + MergeSavings(Tail(sp))

(* the operator table for merges of n items *)
OperatorsOf(n) ==
    UNION {MULTI_CHARS_OPS[i][2] :
              i \in {j \in 1..Len(MULTI_CHARS_OPS) : MULTI_CHARS_OPS[j][1] = n}}

(* the next n raw items are all exactly Operator and spell a table entry *)
MergeableAt(raw, n) ==
    /\ Len(raw) >= n
    /\ \A j \in 1..n : raw[j][1] = Operator
    /\ JoinValues(SubSeq(raw, 1, n)) \in OperatorsOf(n)

LargestMergeable(raw, n) ==
    /\ MergeableAt(raw, n)
    /\ \A m \in (n + 1)..4 : ~MergeableAt(raw, m)

----------------------------------------------------------------------------
(* C1: in the Java tokenizer, wherever the next N raw items (N = 4, then   *)
(* 3, then 2) are all exactly Operator and spell an entry of the table for *)
(* N, get_next_token returns one Operator token whose value is the         *)
(* concatenation and a read count of N, for the largest such N.            *)
C1_LongestMatch ==
    (pc = "loop" /\ self.cls = "JavaTokenizer") =>
        LET rest == skip_tokens(self, raw_tokens)[1]
        IN \A n \in {2, 3, 4} :
              LargestMergeable(rest, n) =>
                  get_next_token(self, rest) =
                      <<transform_raw_token(self,
                            <<Operator, JoinValues(SubSeq(rest, 1, n))>>), n>>

(* C2: an input of exactly max_len characters, given as a string or as a   *)
(* file, is tokenized normally, and an input of max_len + 1 characters     *)
(* gives None, which is not the empty token list.                          *)
C2_SizeCeiling ==
    (pc = "idle" /\ call.kind \in {"string", "module"}
                 /\ result.tag \in {"tokens", "None"}) =>
        /\ Len(code) = self.max_len =>
               result = Returned(tokenize_string(self, code))
        /\ Len(code) = self.max_len + 1 =>
               (result = ReturnedNone /\ result # Returned(<<>>))

(* C3: every identifier registered in TOKENIZERS selects a tokenizer with  *)
(* a lexer, so a file within the ceiling gives a token sequence; "java" is *)
(* the only identifier with the operator-merging get_next_token.           *)
C3_RegisteredHaveLexer ==
    (pc = "idle" /\ call.kind = "module"
                 /\ call.tokenizer_name \in DOMAIN TOKENIZERS) =>
        /\ HasLexer(self.cls)
        /\ Len(code) <= self.max_len => result.tag = "tokens"
        /\ (self.cls = "JavaTokenizer") <=> (call.tokenizer_name = "java")

(* C4: the number of tokens tokenize_string returns is the number of raw   *)
(* items, minus the items dropped by skip_tokens, minus N - 1 for every    *)
(* merge of N items.                                                       *)
C4_TokenCount ==
    (StringReturned /\ Len(code) <= self.max_len) =>
        Len(result.tokens) = Len(raw0) - skipped_total - MergeSavings(spans)

(* C5: every output token comes from one contiguous run of raw items, the  *)
(* runs are in strictly increasing order and disjoint, and every raw item  *)
(* that no enabled skip rule matches lies in exactly one run.              *)
C5_OrderPreserving ==
    StringReturned =>
        /\ Len(spans) = Len(result.tokens)
        /\ \A k \in 1..Len(spans) :
              /\ spans[k][2] >= 1
              /\ Covered(k) \subseteq 1..Len(raw0)
        /\ \A k \in 1..(Len(spans) - 1) :
              spans[k][1] + spans[k][2] <= spans[k + 1][1]
        /\ \A i \in 1..Len(raw0) :
              ~_should_skip(self, raw0[i]) =>
                  Cardinality({k \in 1..Len(spans) : i \in Covered(k)}) = 1

(* C6: a raw item is absent from the output exactly when an enabled skip   *)
(* rule matches its category; with skip_text on no output kind is in Text, *)
(* with skip_comments on none is in Comment.                               *)
C6_SkipExactly ==
    StringReturned =>
        /\ \A i \in 1..Len(raw0) :
              (\A k \in 1..Len(spans) : i \notin Covered(k))
                  <=> _should_skip(self, raw0[i])
        /\ self.skip_text =>
              \A k \in 1..Len(result.tokens) :
                  ~InType(result.tokens[k].kind, Text)
        /\ self.skip_comments =>
              \A k \in 1..Len(result.tokens) :
                  ~InType(result.tokens[k].kind, Comment)

(* C7: the module-level tokenize_file with an unregistered identifier      *)
(* raises an error whose message names the identifier and the file, before *)
(* any file is opened, and returns neither tokens nor None.                *)
C7_UnknownIdentifier ==
    (pc = "idle" /\ call.kind = "module"
                 /\ call.tokenizer_name \notin DOMAIN TOKENIZERS) =>
        /\ result.tag = "raise"
        /\ result.exc = "ValueError"
        /\ call.tokenizer_name \in Range(result.msg)
        /\ call.filename \in Range(result.msg)
        /\ opened = {}

C7_Witness ==
    /\ pc = "idle"
    /\ call.kind = "module"
    /\ call.tokenizer_name = "cobol"
    /\ call.filename = "Main.java"
    /\ result.tag = "raise"

(* C8: tokenizing with include_values off gives the same sequence of kinds *)
(* as with include_values on, and no token then has a value, merged        *)
(* operators included.                                                     *)
C8_ValuesOff ==
    (pc = "idle" /\ call.kind \in {"string", "module"}
                 /\ result.tag = "tokens") =>
        LET other == tokenize_string(
                         [self EXCEPT !.include_values = ~self.include_values],
                         code)
            valuesOn == IF self.include_values THEN result.tokens ELSE other
            valuesOff == IF self.include_values THEN other ELSE result.tokens
        IN /\ Kinds(valuesOff) = Kinds(valuesOn)
           /\ \A k \in 1..Len(valuesOff) : valuesOff[k].value = None

C8_Witness ==
    /\ StringReturned
    /\ self.cls = "JavaTokenizer"
    /\ ~self.include_values
    /\ Len(result.tokens) >= 2
    /\ \E k \in 1..Len(spans) : spans[k][2] = 2
    /\ \A k \in 1..Len(result.tokens) : result.tokens[k].value = None

(* C9: two successive module-level tokenize_file calls with the same       *)
(* filename and the same options mapping give the same outcome, and a call *)
(* leaves the caller's options mapping unchanged.                          *)
C9_NoStateAcrossCalls ==
    [][(\E filename \in Filenames : tokenize_file(filename)) =>
          /\ options' = options
          /\ (call.kind = "module" /\ call.filename = call'.filename) =>
                 result' = result]_vars

(* C10: every iteration of the loop of tokenize_string removes at least    *)
(* one raw item, so the loop runs at most once per raw item and returns    *)
(* with no raw item left.                                                  *)
C10_LoopTerminates ==
    /\ [](pc = "loop" => iters + Len(raw_tokens) <= Len(raw0))
    /\ [](StringReturned => (raw_tokens = <<>> /\ iters <= Len(raw0)))
    /\ [][(pc = "loop" /\ iters' # iters) =>
             Len(raw_tokens') < Len(raw_tokens)]_vars

C10_Witness ==
    /\ StringReturned
    /\ Len(raw0) >= 3
    /\ iters >= 2
    /\ raw_tokens = <<>>

====
